---- MODULE Spec2Model ----
(***************************************************************************)
(* book-manager: an axum service over one MySQL table `books`.             *)
(* Handlers of src/main.rs: health_check, book_list, create_item,           *)
(* update_comment, delete_item.  Each database handler awaits twice:       *)
(* once on db.acquire() and once on the execution of its one statement.    *)
(* The code between two awaits is one atomic step of the model.            *)
(***************************************************************************)
EXTENDS Integers, Sequences, FiniteSets, TLC

\* ---- bounds of the model ----
MaxReq == 2        \* requests received in one behaviour
MaxClock == 1      \* values now() can take are 0..MaxClock
PoolSize == 2      \* connections the pool hands out

\* ---- axum::http::StatusCode values the handlers return ----
OK == 200
CREATED == 201
NO_CONTENT == 204
BAD_REQUEST == 400
INTERNAL_SERVER_ERROR == 500

Requests == 1..MaxReq
Conns == 1..PoolSize
NoConn == 0
NoStatus == 0

\* struct CreateNewBook: the bodies a POST may carry
Payloads ==
  { [title |-> "T", author |-> "A", publisher |-> "P", isbn |-> "123", comment |-> "c"],
    [title |-> "T2", author |-> "A2", publisher |-> "P2", isbn |-> "456", comment |-> "c2"] }
NoPayload == [title |-> "", author |-> "", publisher |-> "", isbn |-> "", comment |-> ""]

\* struct UpdateComment: the bodies a PATCH may carry
Comments == {"c", "c2"}

VARIABLES
  books,      \* the rows of table books: a set of Book records
  nextId,     \* the table's AUTO_INCREMENT counter
  clock,      \* the storage engine's clock, read by now()
  dbUp,       \* whether the storage engine is reachable
  idle,       \* connections of the pool that are not checked out
  req         \* per request: the handler's arguments, locals and position

vars == <<books, nextId, clock, dbUp, idle, req>>

\* ---- struct Book ----
Book(i, p, c, u) ==
  [id |-> i, title |-> p.title, author |-> p.author, publisher |-> p.publisher,
   isbn |-> p.isbn, comment |-> p.comment, created_at |-> c, updated_at |-> u]

Ids(tbl) == {b.id : b \in tbl}

\* ---- the four statements ----
\* select * from books
SelectAll(tbl) == tbl

\* mutant of Insert: author and publisher bound in the wrong order
Insert_SwapsColumns(tbl, i, p, t) ==
  tbl \cup {Book(i, [p EXCEPT !.author = p.publisher, !.publisher = p.author], t, t)}

\* insert into books (title, author, publisher, isbn, comment, created_at, updated_at)
\*   values (?, ?, ?, ?, ?, now(), now())
Insert(tbl, i, p, t) == tbl \cup {Book(i, p, t, t)}

\* mutant of Update: the where clause is missing
Update_NoWhere(tbl, i, c, t) ==
  {[b EXCEPT !.comment = c, !.updated_at = t] : b \in tbl}

\* mutant of Update: now() is written to created_at
Update_TouchesCreatedAt(tbl, i, c, t) ==
  {IF b.id = i THEN [b EXCEPT !.comment = c, !.created_at = t] ELSE b : b \in tbl}

\* mutant of Update: a missing row is inserted
Update_Upserts(tbl, i, c, t) ==
  IF i \in Ids(tbl)
    THEN {IF b.id = i THEN [b EXCEPT !.comment = c, !.updated_at = t] ELSE b : b \in tbl}
    ELSE tbl \cup {Book(i, [NoPayload EXCEPT !.comment = c], t, t)}

\* update books set comment = ?, updated_at = now() where id = ?
Update(tbl, i, c, t) ==
  {IF b.id = i THEN [b EXCEPT !.comment = c, !.updated_at = t] ELSE b : b \in tbl}

\* mutant of Delete: the where clause is negated
Delete_WrongRows(tbl, i) == {b \in tbl : b.id = i}

\* delete from books where id = ?
Delete(tbl, i) == {b \in tbl : b.id # i}

\* rows_affected of a where id = ? statement: the rows the clause matches
Matched(tbl, i) == Cardinality({b \in tbl : b.id = i})

\* ---- the match on rows_affected ----
CreateStatus(count) == IF count = 1 THEN CREATED ELSE BAD_REQUEST

\* mutant of UpdateStatus: zero rows pass as success
UpdateStatus_Lenient(count) == IF count <= 1 THEN NO_CONTENT ELSE BAD_REQUEST

UpdateStatus(count) == IF count = 1 THEN NO_CONTENT ELSE BAD_REQUEST

\* mutant of DeleteStatus: the branches are swapped
DeleteStatus_Inverted(count) == IF count = 1 THEN BAD_REQUEST ELSE NO_CONTENT

DeleteStatus(count) == IF count = 1 THEN NO_CONTENT ELSE BAD_REQUEST

\* A request not yet received.  Fields id, payload, comment are the handler's
\* arguments; acq (is conn Ok or Err), conn, res (is the statement's result Ok or
\* Err), rows, listed, status its locals and its response; acquires,
\* execs, existed, sawDelete are history: calls of db.acquire(), executions of
\* the statement, whether the id named a row when the statement ran, and whether
\* a delete of the same id had run before it.
IdleReq ==
  [pc |-> "idle", op |-> "health", id |-> 0, payload |-> NoPayload, comment |-> "",
   acq |-> "none", conn |-> NoConn, res |-> "none", rows |-> 0, status |-> NoStatus, listed |-> {},
   acquires |-> 0, execs |-> 0, existed |-> FALSE, sawDelete |-> FALSE]

\* The table outlives the process: at start it is empty, or holds a row an
\* earlier run inserted at time 0 under id 1.
InitBooks ==
  { {}, {Book(1, [title |-> "T", author |-> "A", publisher |-> "P", isbn |-> "123",
                  comment |-> "c"], 0, 0)} }

Init ==
  /\ books \in InitBooks
  /\ nextId = Cardinality(books) + 1
  /\ clock = 0
  /\ dbUp = TRUE
  /\ idle = Conns
  /\ req = [r \in Requests |-> IdleReq]

\* requests are received in the order of their numbers
Receivable(r) == req[r].pc = "idle" /\ \A q \in 1..(r - 1) : req[q].pc # "idle"

\* ids a PATCH or DELETE path may name: every id handed out so far, and the next one
PathIds == 1..nextId

\* the request as the Router hands it to its handler
Call(o, i, p, c) == [IdleReq EXCEPT !.op = o, !.id = i, !.payload = p, !.comment = c]

\* ---- let conn = db.acquire().await ----
\* Ok(conn): a connection leaves the pool and is owned by this request
AcquireOk(r, call) ==
  /\ dbUp
  /\ \E c \in idle :
       /\ idle' = idle \ {c}
       /\ req' = [req EXCEPT ![r] = [call EXCEPT !.pc = "exec", !.acq = "ok", !.conn = c,
                                                 !.acquires = call.acquires + 1]]
  /\ UNCHANGED <<books, nextId, clock, dbUp>>

\* mutant of AcquireErr: a failed acquire is tried once more
AcquireErr_Retries(r, call) ==
  /\ dbUp
  /\ \E c \in idle :
       /\ idle' = idle \ {c}
       /\ req' = [req EXCEPT ![r] = [call EXCEPT !.pc = "exec", !.acq = "ok", !.conn = c,
                                                 !.acquires = call.acquires + 2]]
  /\ UNCHANGED <<books, nextId, clock, dbUp>>

\* Err(_): if conn.is_err() { return Err(StatusCode::INTERNAL_SERVER_ERROR) }
AcquireErr(r, call) ==
  /\ req' = [req EXCEPT ![r] = [call EXCEPT !.pc = "done", !.acq = "err",
                                            !.acquires = call.acquires + 1,
                                            !.status = INTERNAL_SERVER_ERROR]]
  /\ UNCHANGED <<books, nextId, clock, dbUp, idle>>

\* ---- the handlers up to the result of db.acquire() ----
book_list_acquire(r) ==
  /\ Receivable(r)
  /\ LET call == Call("list", 0, NoPayload, "")
     IN AcquireOk(r, call) \/ AcquireErr(r, call)

create_item_acquire(r) ==
  /\ Receivable(r)
  /\ \E p \in Payloads :
       LET call == Call("create", 0, p, "")
       IN AcquireOk(r, call) \/ AcquireErr(r, call)

update_comment_acquire(r) ==
  /\ Receivable(r)
  /\ \E i \in PathIds, c \in Comments :
       LET call == Call("update", i, NoPayload, c)
       IN AcquireOk(r, call) \/ AcquireErr(r, call)

delete_item_acquire(r) ==
  /\ Receivable(r)
  /\ \E i \in PathIds :
       LET call == Call("delete", i, NoPayload, "")
       IN AcquireOk(r, call) \/ AcquireErr(r, call)

\* mutant of health_check: it probes the storage engine first
health_check_Pings(r) ==
  /\ Receivable(r)
  /\ dbUp
  /\ req' = [req EXCEPT ![r].pc = "done", ![r].op = "health", ![r].status = NO_CONTENT]
  /\ UNCHANGED <<books, nextId, clock, dbUp, idle>>

\* ---- health_check: no await, no pool ----
health_check(r) ==
  /\ Receivable(r)
  /\ req' = [req EXCEPT ![r].pc = "done", ![r].op = "health", ![r].status = NO_CONTENT]
  /\ UNCHANGED <<books, nextId, clock, dbUp, idle>>

\* the PoolConnection temporary of conn.unwrap() is dropped when the statement
\* ends: the connection goes back to the pool
Released(r) == idle \cup {req[r].conn}

\* history: a delete of id i has run its statement
DeleteRan(i) ==
  \E q \in Requests : req[q].op = "delete" /\ req[q].id = i /\ req[q].res = "ok"

\* the id the table gives the next inserted row (AUTO_INCREMENT primary key)
AutoIncrement == nextId

\* ---- book_list: fetch_all, then map to Json(BookList) ----
book_list(r) ==
  /\ req[r].pc = "exec" /\ req[r].op = "list"
  /\ dbUp
  /\ req' = [req EXCEPT ![r].pc = "done", ![r].conn = NoConn, ![r].res = "ok",
                        ![r].execs = req[r].execs + 1,
                        ![r].listed = SelectAll(books), ![r].status = OK]
  /\ idle' = Released(r)
  /\ UNCHANGED <<books, nextId, clock, dbUp>>

\* ---- create_item: execute the INSERT, then match rows_affected ----
create_item(r) ==
  /\ req[r].pc = "exec" /\ req[r].op = "create"
  /\ dbUp
  /\ LET after == Insert(books, AutoIncrement, req[r].payload, clock)
         count == Cardinality(after \ books)
     IN /\ books' = after
        /\ nextId' = AutoIncrement + 1
        /\ req' = [req EXCEPT ![r].pc = "done", ![r].conn = NoConn, ![r].res = "ok",
                              ![r].execs = req[r].execs + 1, ![r].rows = count,
                              ![r].status = CreateStatus(count)]
  /\ idle' = Released(r)
  /\ UNCHANGED <<clock, dbUp>>

\* ---- update_comment: execute the UPDATE, then match rows_affected ----
update_comment(r) ==
  /\ req[r].pc = "exec" /\ req[r].op = "update"
  /\ dbUp
  /\ LET count == Matched(books, req[r].id)
     IN /\ books' = Update(books, req[r].id, req[r].comment, clock)
        /\ req' = [req EXCEPT ![r].pc = "done", ![r].conn = NoConn, ![r].res = "ok",
                              ![r].execs = req[r].execs + 1, ![r].rows = count,
                              ![r].existed = (req[r].id \in Ids(books)),
                              ![r].sawDelete = DeleteRan(req[r].id),
                              ![r].status = UpdateStatus(count)]
  /\ idle' = Released(r)
  /\ UNCHANGED <<nextId, clock, dbUp>>

\* ---- delete_item: execute the DELETE, then match rows_affected ----
delete_item(r) ==
  /\ req[r].pc = "exec" /\ req[r].op = "delete"
  /\ dbUp
  /\ LET count == Matched(books, req[r].id)
     IN /\ books' = Delete(books, req[r].id)
        /\ req' = [req EXCEPT ![r].pc = "done", ![r].conn = NoConn, ![r].res = "ok",
                              ![r].execs = req[r].execs + 1, ![r].rows = count,
                              ![r].existed = (req[r].id \in Ids(books)),
                              ![r].sawDelete = DeleteRan(req[r].id),
                              ![r].status = DeleteStatus(count)]
  /\ idle' = Released(r)
  /\ UNCHANGED <<nextId, clock, dbUp>>

\* mutant of exec_err: the connection is not returned on the error path
exec_err_Leaks(r) ==
  /\ req[r].pc = "exec"
  /\ req' = [req EXCEPT ![r].pc = "done", ![r].conn = NoConn, ![r].res = "err",
                        ![r].execs = req[r].execs + 1,
                        ![r].status = INTERNAL_SERVER_ERROR]
  /\ UNCHANGED <<books, nextId, clock, dbUp, idle>>

\* ---- the statement's execution returns Err: 500, table untouched ----
exec_err(r) ==
  /\ req[r].pc = "exec"
  /\ req' = [req EXCEPT ![r].pc = "done", ![r].conn = NoConn, ![r].res = "err",
                        ![r].execs = req[r].execs + 1,
                        ![r].status = INTERNAL_SERVER_ERROR]
  /\ idle' = Released(r)
  /\ UNCHANGED <<books, nextId, clock, dbUp>>

\* ---- environment: the storage engine's clock and availability ----
Tick ==
  /\ clock < MaxClock
  /\ clock' = clock + 1
  /\ UNCHANGED <<books, nextId, dbUp, idle, req>>

DbDown ==
  /\ dbUp
  /\ dbUp' = FALSE
  /\ UNCHANGED <<books, nextId, clock, idle, req>>

DbBack ==
  /\ ~dbUp
  /\ dbUp' = TRUE
  /\ UNCHANGED <<books, nextId, clock, idle, req>>

Next ==
  \/ \E r \in Requests : health_check(r)
  \/ \E r \in Requests : book_list_acquire(r)
  \/ \E r \in Requests : create_item_acquire(r)
  \/ \E r \in Requests : update_comment_acquire(r)
  \/ \E r \in Requests : delete_item_acquire(r)
  \/ \E r \in Requests : book_list(r)
  \/ \E r \in Requests : create_item(r)
  \/ \E r \in Requests : update_comment(r)
  \/ \E r \in Requests : delete_item(r)
  \/ \E r \in Requests : exec_err(r)
  \/ Tick
  \/ DbDown
  \/ DbBack

Spec == Init /\ [][Next]_vars

\* ------------------------------------------------------------------------
\* Properties
\* ------------------------------------------------------------------------
DbOps == {"list", "create", "update", "delete"}

\* request r runs its statement in this step, and the statement succeeds
Runs(r, o) == req[r].pc = "exec" /\ req[r].op = o /\ req'[r].res = "ok"

\* book b carries the values of payload p
Carries(b, p) ==
  /\ b.title = p.title /\ b.author = p.author /\ b.publisher = p.publisher
  /\ b.isbn = p.isbn /\ b.comment = p.comment

\* C1: a create that returns 201 adds exactly one Book to what a list returns;
\* the new Book carries the submitted title, author, publisher, isbn and
\* comment, its created_at equals its updated_at, and every Book present
\* before is still present and unchanged.  A list returns the table as it is
\* when its statement runs.
C1_CreateAddsOneBook ==
  [][\A r \in Requests :
       /\ (Runs(r, "create") /\ req'[r].status = CREATED) =>
            /\ Cardinality(SelectAll(books')) = Cardinality(SelectAll(books)) + 1
            /\ SelectAll(books) \subseteq SelectAll(books')
            /\ \A b \in SelectAll(books') \ SelectAll(books) :
                 /\ Carries(b, req[r].payload)
                 /\ b.created_at = b.updated_at
       /\ Runs(r, "create") => req'[r].status = CREATED
       /\ Runs(r, "list") => req'[r].status = OK /\ req'[r].listed = books
    ]_vars

\* a create answered 201 and a later list that shows the created Book
C1_Witness ==
  \E r, l \in Requests :
    /\ req[r].op = "create" /\ req[r].status = CREATED
    /\ req[l].op = "list" /\ req[l].status = OK
    /\ \E b \in req[l].listed :
         /\ Carries(b, req[r].payload)
         /\ b.created_at = b.updated_at
         /\ b.id = Cardinality(req[l].listed)
    /\ Cardinality(req[l].listed) = 2

\* the frame of an update of row i: only comment and updated_at of that row change
UpdateFrame(r) ==
  /\ Ids(books') = Ids(books)
  /\ \A b \in books : b.id # req[r].id => b \in books'
  /\ \A b \in books, n \in books' :
       (b.id = req[r].id /\ n.id = b.id) =>
         /\ n.title = b.title /\ n.author = b.author /\ n.publisher = b.publisher
         /\ n.isbn = b.isbn /\ n.created_at = b.created_at
         /\ n.comment = req[r].comment

\* C2 as stated: an update of an existing id changes only that row's comment and
\* updated_at, and the row's updated_at is strictly greater than before.
C2_Original ==
  [][\A r \in Requests :
       (Runs(r, "update") /\ req[r].id \in Ids(books)) =>
         /\ UpdateFrame(r)
         /\ \A b \in books, n \in books' :
              (b.id = req[r].id /\ n.id = b.id) => n.updated_at > b.updated_at
    ]_vars

\* C2 amended: an update of an existing id changes only that row's comment and
\* updated_at; updated_at becomes the time now() reads, which is never less than
\* it was, and is strictly greater exactly when the clock has moved on since the
\* row was last written.
C2_UpdateFrame ==
  [][\A r \in Requests :
       (Runs(r, "update") /\ req[r].id \in Ids(books)) =>
         /\ UpdateFrame(r)
         /\ \A b \in books, n \in books' :
              (b.id = req[r].id /\ n.id = b.id) =>
                /\ n.updated_at = clock
                /\ n.updated_at >= b.updated_at
                /\ (n.updated_at > b.updated_at) <=> (clock > b.updated_at)
    ]_vars

\* an update answered 204 whose row shows the new comment and a later updated_at
C2_Witness ==
  \E r \in Requests :
    /\ req[r].op = "update" /\ req[r].status = NO_CONTENT
    /\ \E b \in books :
         /\ b.id = req[r].id /\ b.comment = req[r].comment
         /\ b.comment # "c"
         /\ b.updated_at > b.created_at

\* C3: an update or delete of an id that names no row (never inserted, or
\* deleted earlier) leaves the table exactly as it was, and when its statement
\* succeeds it is answered 400.
C3_MissingId ==
  [][\A r \in Requests :
       (req[r].pc = "exec" /\ req[r].op \in {"update", "delete"}
          /\ req[r].id \notin Ids(books) /\ req'[r].pc = "done") =>
         /\ books' = books
         /\ req'[r].res = "ok" => req'[r].status = BAD_REQUEST
    ]_vars

\* a delete answered 204, then an update of the same id answered 400
C3_Witness ==
  \E d, u \in Requests :
    /\ req[d].op = "delete" /\ req[d].status = NO_CONTENT
    /\ req[u].op = "update" /\ req[u].id = req[d].id
    /\ req[u].sawDelete /\ req[u].status = BAD_REQUEST
    /\ books = {}

\* two requests that both ran op o on the same id, each with a successful statement
BothRan(a, b, o) ==
  /\ a # b
  /\ req[a].op = o /\ req[b].op = o /\ req[a].id = req[b].id
  /\ req[a].pc = "done" /\ req[b].pc = "done"
  /\ req[a].res = "ok" /\ req[b].res = "ok"

\* C4: of two deletes of the same id, where the id named a row when one of them
\* ran, exactly one is answered 204 and exactly one 400, and after both the row
\* is absent; a delete removes no row of another id.
C4_DeleteTwice ==
  /\ [](\A a, b \in Requests :
          (BothRan(a, b, "delete") /\ (req[a].existed \/ req[b].existed)) =>
            /\ {req[a].status, req[b].status} = {NO_CONTENT, BAD_REQUEST}
            /\ req[a].id \notin Ids(books))
  /\ [][\A r \in Requests :
          Runs(r, "delete") =>
            /\ books' \subseteq books
            /\ \A b \in books : b.id # req[r].id => b \in books'
       ]_vars

\* one id deleted twice: first 204, then 400, and the row is gone
C4_Witness ==
  \E a, b \in Requests :
    /\ BothRan(a, b, "delete")
    /\ req[a].status = NO_CONTENT /\ req[b].status = BAD_REQUEST
    /\ req[a].id \notin Ids(books)

\* C5: no two rows share an id, every row has created_at <= updated_at, and no
\* step changes the id of a row: a row of the next state is a row inserted under
\* a fresh id or the row that had that id, with the columns set at insert intact.
C5_TableInvariant ==
  /\ [](/\ \A a, b \in books : a.id = b.id => a = b
        /\ \A b \in books : b.created_at <= b.updated_at)
  /\ [][/\ \A n \in books' : n.id \in Ids(books) \/ (n.id = nextId /\ nextId' > nextId)
        /\ \A b \in books, n \in books' :
             n.id = b.id =>
               /\ n.created_at = b.created_at /\ n.title = b.title
               /\ n.author = b.author /\ n.publisher = b.publisher /\ n.isbn = b.isbn
       ]_vars

\* two rows, one of them updated after it was created
C5_Witness ==
  /\ Cardinality(books) = 2
  /\ \E b \in books : b.created_at < b.updated_at
  /\ \E r \in Requests : req[r].op = "update" /\ req[r].status = NO_CONTENT

\* connections checked out by requests
Held == {req[r].conn : r \in Requests} \ {NoConn}

\* C6: a request calls acquire at most once and holds a connection only while
\* its statement is in flight; no connection is held by two requests or is
\* both held and idle; a request that has its response (2xx, 400 or 500) holds
\* none, and every connection is then idle or held by another in-flight request.
C6_PoolDiscipline ==
  /\ \A r \in Requests :
       /\ req[r].acquires <= 1
       /\ req[r].conn # NoConn <=> req[r].pc = "exec"
       /\ req[r].conn # NoConn => req[r].conn \in Conns \ idle
       /\ req[r].pc = "done" => req[r].conn = NoConn
  /\ \A a, b \in Requests : (a # b /\ req[a].conn # NoConn) => req[a].conn # req[b].conn
  /\ idle \cup Held = Conns

\* two requests held both connections at once; one was answered 500 after its
\* statement failed, the other still holds its connection
C6_Witness ==
  \E a, b \in Requests :
    /\ req[a].pc = "done" /\ req[a].res = "err" /\ req[a].status = INTERNAL_SERVER_ERROR
    /\ req[b].pc = "exec"
    /\ idle = Conns \ {req[b].conn}

\* C7: a handler whose acquire fails answers 500 having run no statement and
\* having called acquire once; a handler whose statement fails answers 500
\* having run the statement once; a 500 stays a 500.
C7_NoRetry ==
  /\ [](\A r \in Requests :
          /\ req[r].acq = "err" =>
               /\ req[r].pc = "done" /\ req[r].status = INTERNAL_SERVER_ERROR
               /\ req[r].execs = 0 /\ req[r].acquires = 1
          /\ req[r].res = "err" =>
               /\ req[r].pc = "done" /\ req[r].status = INTERNAL_SERVER_ERROR
               /\ req[r].execs = 1 /\ req[r].acquires = 1
          /\ req[r].status = INTERNAL_SERVER_ERROR =>
               req[r].acq = "err" \/ req[r].res = "err")
  /\ [][\A r \in Requests :
          /\ req[r].status = INTERNAL_SERVER_ERROR => req'[r] = req[r]
          /\ (req[r].pc = "idle" /\ req'[r].acq = "err") => books' = books
          /\ (req[r].pc = "exec" /\ req'[r].res = "err") => books' = books
       ]_vars

\* one request answered 500 on acquire, another answered 500 on its statement
C7_Witness ==
  \E a, b \in Requests :
    /\ req[a].acq = "err" /\ req[a].status = INTERNAL_SERVER_ERROR
    /\ req[b].acq = "ok" /\ req[b].res = "err" /\ req[b].status = INTERNAL_SERVER_ERROR
    /\ req[a].op \in DbOps /\ req[b].op \in DbOps

\* C8: with no acquire or statement error, an update or delete is answered 204
\* when its id names a row at the moment its statement runs (one row affected),
\* and 400 only when no row is affected because the id names none.
C8_StatusByRows ==
  \A r \in Requests :
    (req[r].op \in {"update", "delete"} /\ req[r].pc = "done"
       /\ req[r].acq = "ok" /\ req[r].res = "ok") =>
      /\ req[r].status \in {NO_CONTENT, BAD_REQUEST}
      /\ req[r].existed => (req[r].status = NO_CONTENT /\ req[r].rows = 1)
      /\ req[r].status = BAD_REQUEST => (req[r].rows = 0 /\ ~req[r].existed)

\* an update that repeats the row's comment at the row's own updated_at, answered 204,
\* beside a delete of a missing id answered 400
C8_Witness ==
  \E u, d \in Requests :
    /\ req[u].op = "update" /\ req[u].existed /\ req[u].status = NO_CONTENT
    /\ \E b \in books :
         b.id = req[u].id /\ b.comment = "c" /\ b.updated_at = b.created_at
    /\ req[d].op = "delete" /\ ~req[d].existed /\ req[d].status = BAD_REQUEST

Race(u, d) ==
  /\ req[u].op = "update" /\ req[d].op = "delete" /\ req[u].id = req[d].id
  /\ req[u].pc = "done" /\ req[d].pc = "done"
  /\ req[u].res = "ok" /\ req[d].res = "ok"
  /\ IF req[u].sawDelete THEN req[d].existed ELSE req[u].existed
  /\ \A q \in Requests \ {d} :
       ~(req[q].op = "delete" /\ req[q].id = req[d].id /\ req[q].res = "ok")

\* C10: in such a race the delete is answered 204, the update 204 if its
\* statement ran before the delete's and 400 otherwise, and in both orders the
\* row is absent once both are answered.
C10_UpdateDeleteRace ==
  \A u, d \in Requests :
    Race(u, d) =>
      /\ req[d].status = NO_CONTENT
      /\ ~req[u].sawDelete => req[u].status = NO_CONTENT
      /\ req[u].sawDelete => req[u].status = BAD_REQUEST
      /\ req[u].id \notin Ids(books)

\* the update lost the race: the delete ran first
C10_Witness ==
  \E u, d \in Requests :
    /\ Race(u, d)
    /\ req[u].sawDelete /\ req[u].status = BAD_REQUEST /\ req[d].status = NO_CONTENT

\* the update won the race: it ran first
C10_WitnessUpdateFirst ==
  \E u, d \in Requests :
    /\ Race(u, d)
    /\ ~req[u].sawDelete /\ req[u].status = NO_CONTENT /\ req[d].status = NO_CONTENT

====
